---- MODULE Spec2Model ----
(***************************************************************************)
(* DesktopMateController (src/main.py): launch through Steam, wait for the *)
(* process, locate and reconcile its window, then supervise the process    *)
(* from a tray icon with a background liveness monitor.                    *)
(*                                                                         *)
(* Strings are looked up character by character (Chars) so that           *)
(* str.lower(), equality after case folding and the substring test are     *)
(* computed.                                                               *)
(* Extended window styles are integers; & | ~ are Python's operators on    *)
(* unbounded two's-complement integers.                                    *)
(***************************************************************************)
EXTENDS Integers, Sequences, FiniteSets, TLC

VARIABLES
    \* operating system
    procs,          \* process table: pid -> name, Absent, or NoneName
    pendingLaunch,  \* Steam was asked to run the app and has not spawned it yet
    wins,           \* top-level windows: hwnd -> [visible, pid, cls] or NoWin
    exstyle,        \* GWL_EXSTYLE of each window
    \* controller instance
    gen,            \* number of os.execl re-executions so far
    restartFault,   \* a restart met an exception or a process it may not kill
    pc,             \* position of the main thread
    hwnd,           \* self.hwnd (0 is None)
    is_running,     \* self.is_running
    icon,           \* self.icon is set
    stopSignalled,  \* icon.stop() was called on the icon
    mpc,            \* position of the monitor thread
    \* wait_for_application
    elapsed,        \* half seconds slept in the polling loop
    waitLog,        \* result of the wait, matches seen, settle delays, later polls
    \* find_and_modify_window
    retry_count, success, windows, attempts,
    \* modify_window
    style, new_style, oscalls, modResult,
    \* start / exit_application / restart_application
    startResult, elog, exitStatus

vars == <<procs, pendingLaunch, wins, exstyle, gen, restartFault, pc, hwnd,
          is_running, icon, stopSignalled, mpc, elapsed, waitLog,
          retry_count, success, windows, attempts, style, new_style,
          oscalls, modResult, startResult, elog, exitStatus>>

osVars    == <<procs, pendingLaunch, wins, exstyle>>
waitVars  == <<elapsed, waitLog>>
fmwVars   == <<retry_count, success, windows, attempts>>
modVars   == <<style, new_style, oscalls, modResult>>
selfVars  == <<hwnd, is_running, icon, stopSignalled>>
endVars   == <<startResult, elog, exitStatus>>

-----------------------------------------------------------------------------
(* Bounds of the model *)

MaxPids == 2        \* process ids 1..MaxPids
MaxWindows == 2     \* window handles 1..MaxWindows
MaxRestarts == 2    \* restart actions followed through os.execl

Pids  == 1..MaxPids
Hwnds == 1..MaxWindows

-----------------------------------------------------------------------------
(* Program constants *)

max_wait_time == 60     \* seconds, wait_for_application
max_retries == 3        \* find_and_modify_window

WS_EX_APPWINDOW  == 262144       \* 0x00040000
WS_EX_TOOLWINDOW == 128          \* 0x00000080
WS_EX_NOACTIVATE == 134217728    \* 0x08000000

process_name == "DesktopMate.exe"

-----------------------------------------------------------------------------
(* Strings *)

\* the characters of the strings the model uses
Chars(s) ==
    CASE s = "DesktopMate.exe" ->
            <<"D","e","s","k","t","o","p","M","a","t","e",".","e","x","e">>
      [] s = "desktopmate.exe" ->
            <<"d","e","s","k","t","o","p","m","a","t","e",".","e","x","e">>
      [] s = "DesktopMateUpdater.exe" ->
            <<"D","e","s","k","t","o","p","M","a","t","e","U","p","d",
              "a","t","e","r",".","e","x","e">>
      [] s = "UnityWndClass" ->
            <<"U","n","i","t","y","W","n","d","C","l","a","s","s">>
      [] s = "IME" -> <<"I","M","E">>
      [] s = "Unity" -> <<"U","n","i","t","y">>

UpperAlphabet == <<"A","B","C","D","E","F","G","H","I","J","K","L","M",
                   "N","O","P","Q","R","S","T","U","V","W","X","Y","Z">>
LowerAlphabet == <<"a","b","c","d","e","f","g","h","i","j","k","l","m",
                   "n","o","p","q","r","s","t","u","v","w","x","y","z">>

LowerOf ==
    [c \in {UpperAlphabet[i] : i \in 1..Len(UpperAlphabet)} |->
        LowerAlphabet[CHOOSE i \in 1..Len(UpperAlphabet) : UpperAlphabet[i] = c]]

LowerChar(c) == IF c \in DOMAIN LowerOf THEN LowerOf[c] ELSE c

\* str.lower(), as a sequence of characters
Lower(s) == [i \in 1..Len(Chars(s)) |-> LowerChar(Chars(s)[i])]

\* sub in s
Contains(sub, s) ==
    \E k \in 0..(Len(Chars(s)) - Len(Chars(sub))) :
        \A i \in 1..Len(Chars(sub)) : Chars(s)[k + i] = Chars(sub)[i]

\* names the process table of the model can hold
LowerName   == "desktopmate.exe"
UpdaterName == "DesktopMateUpdater.exe"
NoneName    == "<None>"        \* proc.info['name'] is None
Absent      == "<absent>"      \* no process has this pid

\* window classes the window system of the model can hold
UnityWndClass == "UnityWndClass"
ImeClass      == "IME"
NoWin == [visible |-> FALSE, pid |-> 0, cls |-> ""]

-----------------------------------------------------------------------------
(* Python's integer bit operators *)

RECURSIVE BitAnd(_, _)
BitAnd(a, b) ==
    IF a = 0 \/ b = 0 THEN 0
    ELSE IF a = -1 THEN b
    ELSE IF b = -1 THEN a
    ELSE (a % 2) * (b % 2) + 2 * BitAnd((a - (a % 2)) \div 2, (b - (b % 2)) \div 2)

RECURSIVE BitOr(_, _)
BitOr(a, b) ==
    IF a = 0 THEN b
    ELSE IF b = 0 THEN a
    ELSE IF a = -1 \/ b = -1 THEN -1
    ELSE (IF a % 2 = 1 \/ b % 2 = 1 THEN 1 ELSE 0)
         + 2 * BitOr((a - (a % 2)) \div 2, (b - (b % 2)) \div 2)

BitNot(a) == -a - 1

\* new_style with + for |
NewStyle_Adds(st) ==
    BitAnd(st, BitNot(WS_EX_APPWINDOW)) + WS_EX_TOOLWINDOW + WS_EX_NOACTIVATE

\* new_style without the "& ~WS_EX_APPWINDOW"
NewStyle_KeepsAppWindow(st) ==
    BitOr(BitOr(st, WS_EX_TOOLWINDOW), WS_EX_NOACTIVATE)

\* new_style of modify_window
NewStyle(st) ==
    BitOr(BitOr(BitAnd(st, BitNot(WS_EX_APPWINDOW)), WS_EX_TOOLWINDOW),
          WS_EX_NOACTIVATE)

-----------------------------------------------------------------------------
(* Process table scans *)

\* proc.info['name'].lower() == self.process_name.lower()
TargetLower == Lower(process_name)

\* the comparison without the two lower()
NameMatches_CaseSensitive(n) == Chars(n) = Chars(process_name)

NameMatches(n) == Lower(n) = TargetLower

\* for proc in psutil.process_iter(['pid', 'name']), in pid order, as
\* wait_for_application and monitor_process run it: "match" at the first
\* matching name, "error" when a name that is None is reached first
\* (None.lower() raises AttributeError, which the loop does not catch),
\* "nomatch" at the end of the table.
RECURSIVE ScanFrom(_, _)
ScanFrom(t, p) ==
    IF p > MaxPids THEN "nomatch"
    ELSE IF t[p] = Absent THEN ScanFrom(t, p + 1)
    ELSE IF t[p] = NoneName THEN "error"
    ELSE IF NameMatches(t[p]) THEN "match"
    ELSE ScanFrom(t, p + 1)

Scan(t) == ScanFrom(t, 1)

Matching(t) == {p \in Pids : t[p] # Absent /\ t[p] # NoneName /\ NameMatches(t[p])}

\* the force-kill loop of restart_application: in pid order: proc.kill()
\* on a match and break; AccessDenied (pid in denied) is swallowed and the
\* loop goes on; AttributeError on a None name leaves the loop for the outer
\* except.
RECURSIVE RestartKillFrom(_, _, _, _)
RestartKillFrom(t, p, denied, tried) ==
    IF p > MaxPids THEN [table |-> t, raised |-> FALSE, tried |-> tried]
    ELSE IF t[p] = Absent THEN RestartKillFrom(t, p + 1, denied, tried)
    ELSE IF t[p] = NoneName THEN [table |-> t, raised |-> TRUE, tried |-> tried]
    ELSE IF NameMatches(t[p])
         THEN IF p \in denied
              THEN RestartKillFrom(t, p + 1, denied, tried \cup {p})
              ELSE [table |-> [t EXCEPT ![p] = Absent], raised |-> FALSE,
                    tried |-> tried \cup {p}]
    ELSE RestartKillFrom(t, p + 1, denied, tried)

\* the same loop with the break of restart_application after the kill
ExitKill_Breaks(t, p, denied, tried) == RestartKillFrom(t, p, denied, tried)

\* the force-kill loop of exit_application: proc.kill() on every match;
\* AccessDenied (pid in denied) is swallowed, AttributeError on a None name
\* leaves the loop for the outer except.
RECURSIVE ExitKillFrom(_, _, _, _)
ExitKillFrom(t, p, denied, tried) ==
    IF p > MaxPids THEN [table |-> t, raised |-> FALSE, tried |-> tried]
    ELSE IF t[p] = Absent THEN ExitKillFrom(t, p + 1, denied, tried)
    ELSE IF t[p] = NoneName THEN [table |-> t, raised |-> TRUE, tried |-> tried]
    ELSE IF NameMatches(t[p])
         THEN IF p \in denied
              THEN ExitKillFrom(t, p + 1, denied, tried \cup {p})
              ELSE ExitKillFrom([t EXCEPT ![p] = Absent], p + 1, denied,
                                tried \cup {p})
    ELSE ExitKillFrom(t, p + 1, denied, tried)

-----------------------------------------------------------------------------
(* Window enumeration and selection *)

\* callback of find_window: the window is appended to the list
Admitted(w, t) ==
    /\ w.visible
    /\ t[w.pid] # Absent          \* psutil.NoSuchProcess
    /\ t[w.pid] # NoneName        \* psutil.AccessDenied
    /\ NameMatches(t[w.pid])

\* the orders EnumWindows may present the existing windows in
Enumerations(ws) ==
    LET E == {h \in Hwnds : ws[h] # NoWin}
    IN  {f \in [1..Cardinality(E) -> E] : \A i, j \in DOMAIN f : f[i] = f[j] => i = j}

\* the enumeration ended by the first window whose owner cannot be inspected
RECURSIVE Candidates_StopsOnError(_, _, _)
Candidates_StopsOnError(order, ws, t) ==
    IF order = <<>> THEN <<>>
    ELSE LET h == Head(order)
         IN  IF ws[h].visible /\ t[ws[h].pid] \in {Absent, NoneName}
             THEN <<>>
             ELSE IF Admitted(ws[h], t)
                  THEN <<[hwnd |-> h, cls |-> ws[h].cls]>>
                       \o Candidates_StopsOnError(Tail(order), ws, t)
                  ELSE Candidates_StopsOnError(Tail(order), ws, t)

\* the list the callback of find_window builds over one EnumWindows
RECURSIVE Candidates(_, _, _)
Candidates(order, ws, t) ==
    IF order = <<>> THEN <<>>
    ELSE LET h == Head(order)
             rest == Candidates(Tail(order), ws, t)
         IN  IF Admitted(ws[h], t)
             THEN <<[hwnd |-> h, cls |-> ws[h].cls]>> \o rest
             ELSE rest

IsUnity(c) == Contains("Unity", c.cls)

\* the first window, whatever its class
Select_First(cands) == cands[1].hwnd

\* the handle find_window stores for a non-empty list
Select(cands) ==
    IF Len(cands) > 1 /\ \E i \in 1..Len(cands) : IsUnity(cands[i])
    THEN cands[CHOOSE i \in 1..Len(cands) :
                  /\ IsUnity(cands[i])
                  /\ \A j \in 1..(i - 1) : ~IsUnity(cands[j])].hwnd
    ELSE cands[1].hwnd

-----------------------------------------------------------------------------
(* Initial states *)

\* extended styles a window can have before the controller touches it
Styles ==
    {a + b + c + d + e :
        a \in {0, WS_EX_APPWINDOW}, b \in {0, WS_EX_TOOLWINDOW},
        c \in {0, WS_EX_NOACTIVATE}, d \in {0, 8}, e \in {0, 524288}}

WinRecs(h) ==
    {[visible |-> v, pid |-> ((h - 1) % MaxPids) + 1, cls |-> c] :
        v \in BOOLEAN, c \in {UnityWndClass, ImeClass}}

AllWorlds == {w \in [Hwnds -> UNION {WinRecs(h) : h \in Hwnds} \cup {NoWin}] :
                 \A h \in Hwnds : w[h] \in WinRecs(h) \cup {NoWin}}

\* the desktop of the whole-program specification: one visible window per
\* handle, the first an IME helper, the others Unity; a window counts once
\* its owner is a running process
SysWorlds ==
    {[h \in Hwnds |-> [visible |-> TRUE, pid |-> ((h - 1) % MaxPids) + 1,
                       cls |-> IF h = 1 THEN ImeClass ELSE UnityWndClass]]}

SysTables == [Pids -> {Absent, process_name, NoneName}]
NamedTables == [Pids -> {Absent, process_name, LowerName, UpdaterName}]
AllTables == [Pids -> {Absent, LowerName, UpdaterName, NoneName}]

NoWait == [result |-> "none", matchSeen |-> FALSE, settles |-> 0, pollsAfter |-> 0]

\* DesktopMateController.__init__
SelfInit ==
    /\ hwnd = 0
    /\ is_running = TRUE
    /\ icon = FALSE
    /\ stopSignalled = FALSE
    /\ mpc = "none"

LocalsInit ==
    /\ elapsed = 0
    /\ retry_count = 0
    /\ success = FALSE
    /\ windows = <<>>
    /\ attempts = <<>>
    /\ style = 0
    /\ new_style = 0
    /\ oscalls = <<>>
    /\ modResult = "none"
    /\ startResult = "none"
    /\ elog = <<>>
    /\ exitStatus = -1

Init ==
    /\ procs \in SysTables
    /\ pendingLaunch = FALSE
    /\ wins \in SysWorlds
    /\ exstyle = [h \in Hwnds |-> WS_EX_APPWINDOW]
    /\ gen = 0
    /\ restartFault = FALSE
    /\ pc = "start"
    /\ SelfInit
    /\ waitLog = NoWait
    /\ LocalsInit

-----------------------------------------------------------------------------
(* Operating system *)

\* Steam spawns the application it was asked to run
ProcSpawn ==
    /\ pendingLaunch
    /\ \E p \in Pids :
        /\ procs[p] = Absent
        /\ \A q \in Pids : q < p => procs[q] # Absent
        /\ procs' = [procs EXCEPT ![p] = process_name]
    /\ pendingLaunch' = FALSE
    /\ UNCHANGED <<wins, exstyle, gen, restartFault, pc, mpc, selfVars, waitVars,
                   fmwVars, modVars, endVars>>

\* a process ends on its own (or on WM_CLOSE)
ProcExit ==
    /\ \E p \in Pids :
        /\ procs[p] # Absent
        /\ procs' = [procs EXCEPT ![p] = Absent]
    /\ UNCHANGED <<pendingLaunch, wins, exstyle, gen, restartFault, pc, mpc,
                   selfVars, waitVars, fmwVars, modVars, endVars>>

-----------------------------------------------------------------------------
(* start: launch and wait *)

\* launch_through_steam: Popen either hands the URL to Steam or raises,
\* which is logged
launch_through_steam ==
    /\ pc = "start"
    /\ pendingLaunch' \in {TRUE, pendingLaunch}
    /\ pc' = "wait"
    /\ UNCHANGED <<procs, wins, exstyle, gen, restartFault, mpc, selfVars,
                   waitVars, fmwVars, modVars, endVars>>

\* the polling loop without the return in the match branch
WaitPoll_KeepsPolling ==
    /\ pc = "wait"
    /\ elapsed < 2 * max_wait_time
    /\ LET r == Scan(procs)
           after == [waitLog EXCEPT !.pollsAfter =
                        IF waitLog.matchSeen THEN @ + 1 ELSE @]
       IN  CASE r = "match" ->
                  /\ waitLog' = [after EXCEPT !.matchSeen = TRUE]
                  /\ pc' = IF waitLog.matchSeen THEN "settle" ELSE "wait"
                  /\ UNCHANGED <<elapsed, exitStatus>>
             [] r = "error" ->
                  /\ pc' = "crashed"
                  /\ exitStatus' = 1
                  /\ waitLog' = after
                  /\ UNCHANGED elapsed
             [] OTHER ->
                  /\ elapsed' = elapsed + 1
                  /\ waitLog' = after
                  /\ UNCHANGED <<pc, exitStatus>>
    /\ UNCHANGED <<osVars, gen, restartFault, mpc, selfVars, fmwVars, modVars,
                   startResult, elog>>

\* one iteration of the polling loop of wait_for_application
WaitPoll ==
    /\ pc = "wait"
    /\ elapsed < 2 * max_wait_time
    /\ LET r == Scan(procs)
           after == [waitLog EXCEPT !.pollsAfter =
                        IF waitLog.matchSeen THEN @ + 1 ELSE @]
       IN  CASE r = "match" ->
                  /\ waitLog' = [after EXCEPT !.matchSeen = TRUE]
                  /\ pc' = "settle"
                  /\ UNCHANGED <<elapsed, exitStatus>>
             [] r = "error" ->
                  /\ pc' = "crashed"
                  /\ exitStatus' = 1
                  /\ waitLog' = after
                  /\ UNCHANGED elapsed
             [] OTHER ->
                  /\ elapsed' = elapsed + 1      \* time.sleep(0.5)
                  /\ waitLog' = after
                  /\ UNCHANGED <<pc, exitStatus>>
    /\ UNCHANGED <<osVars, gen, restartFault, mpc, selfVars, fmwVars, modVars, startResult, elog>>

\* time.sleep(10); return True
WaitSettle ==
    /\ pc = "settle"
    /\ waitLog' = [waitLog EXCEPT !.settles = @ + 1, !.result = "true"]
    /\ pc' = "waited"
    /\ UNCHANGED <<osVars, gen, restartFault, mpc, selfVars, elapsed, fmwVars, modVars, endVars>>

\* the loop condition fails: return False
WaitTimeout ==
    /\ pc = "wait"
    /\ elapsed >= 2 * max_wait_time
    /\ waitLog' = [waitLog EXCEPT !.result = "false"]
    /\ pc' = "waited"
    /\ UNCHANGED <<osVars, gen, restartFault, mpc, selfVars, elapsed, fmwVars, modVars, endVars>>

\* start going on to the monitor and the tray icon after a failed wait
StartAfterWait_Proceeds ==
    /\ pc = "waited"
    /\ pc' = IF waitLog.result = "false" THEN "monitoring" ELSE "fmw"
    /\ elapsed' = 0
    /\ UNCHANGED <<osVars, gen, restartFault, mpc, selfVars, waitLog, fmwVars,
                   modVars, endVars>>

\* start: return False when the wait failed, else go on
StartAfterWait ==
    /\ pc = "waited"
    /\ IF waitLog.result = "false"
       THEN /\ startResult' = "false"
            /\ pc' = "returned"
            /\ exitStatus' = 0
       ELSE /\ pc' = "fmw"
            /\ UNCHANGED <<startResult, exitStatus>>
    /\ elapsed' = 0                 \* the frame of wait_for_application is gone
    /\ UNCHANGED <<osVars, gen, restartFault, mpc, selfVars, waitLog, fmwVars, modVars, elog>>

-----------------------------------------------------------------------------
(* find_and_modify_window, find_window, modify_window *)

\* the loop condition with <= for <
LoopCondition_OffByOne == ~success /\ retry_count <= max_retries

\* while not success and retry_count < max_retries
LoopCondition == ~success /\ retry_count < max_retries

\* find_window, called at the top of the loop of find_and_modify_window
find_window ==
    /\ pc = "fmw"
    /\ LoopCondition
    /\ \E order \in Enumerations(wins) :
        LET cands == Candidates(order, wins, procs)
        IN  /\ windows' = cands
            /\ IF cands = <<>>
               THEN /\ pc' = "backoff"                  \* return False
                    /\ UNCHANGED hwnd
               ELSE /\ hwnd' = Select(cands)
                    /\ pc' = "modify"                   \* return True
            /\ attempts' = Append(attempts,
                                  [located |-> cands # <<>>, calls |-> 0, ok |-> FALSE])
    /\ UNCHANGED <<osVars, gen, restartFault, mpc, is_running, icon, stopSignalled, waitVars,
                   retry_count, success, modVars, endVars>>

\* OS calls of modify_window and set_parent_to_desktop, with their outcomes
E(c, out) == [call |-> c, out |-> out]

OwnCalls == {"IsIconic", "ShowWindow:SW_RESTORE", "ShowWindow:SW_SHOW",
             "GetWindowLong", "SetWindowLong", "ShowWindow:SW_SHOWNOACTIVATE"}

\* what the window system answers during one modify_window
Outcomes ==
    [iconic : BOOLEAN, raise : OwnCalls \cup {"none"},
     progman : {"found", "null", "raise"}, workerw : {"found", "null", "raise"},
     setparent : {"ok", "raise"}]

Own(c, o) == E(c, IF o.raise = c THEN "raise" ELSE "ok")

\* set_parent_to_desktop: Progman, then WorkerW when Progman is not found,
\* SetParent when one is found; every exception is caught inside
set_parent_to_desktop(o) ==
    CASE o.progman = "raise" -> <<E("FindWindow:Progman", "raise")>>
      [] o.progman = "found" ->
            <<E("FindWindow:Progman", "ok"), E("SetParent", o.setparent)>>
      [] OTHER ->
            <<E("FindWindow:Progman", "null")>> \o
            (CASE o.workerw = "raise" -> <<E("FindWindow:WorkerW", "raise")>>
               [] o.workerw = "found" ->
                     <<E("FindWindow:WorkerW", "ok"), E("SetParent", o.setparent)>>
               [] OTHER -> <<E("FindWindow:WorkerW", "null")>>)

\* set_parent_to_desktop without its try
ParentRaises_Uncaught == TRUE

\* an exception of set_parent_to_desktop reaches modify_window: never, its
\* try encloses all of it
ParentRaises == FALSE

\* the calls modify_window makes when none of them raises
AllCalls(o) ==
    <<E("IsIconic", IF o.raise = "IsIconic" THEN "raise"
                    ELSE IF o.iconic THEN "yes" ELSE "no")>>
    \o (IF o.iconic THEN <<Own("ShowWindow:SW_RESTORE", o)>> ELSE <<>>)
    \o <<Own("ShowWindow:SW_SHOW", o), Own("GetWindowLong", o),
         Own("SetWindowLong", o)>>
    \o set_parent_to_desktop(o)
    \o <<Own("ShowWindow:SW_SHOWNOACTIVATE", o)>>

Escapes(e) ==
    /\ e.out = "raise"
    /\ \/ e.call \in OwnCalls
       \/ ParentRaises

\* the calls made up to the first exception that leaves the try of modify_window
Calls(o) ==
    LET all == AllCalls(o)
    IN  IF \E i \in 1..Len(all) : Escapes(all[i])
        THEN SubSeq(all, 1, CHOOSE i \in 1..Len(all) :
                               /\ Escapes(all[i])
                               /\ \A j \in 1..(i - 1) : ~Escapes(all[j]))
        ELSE all

\* every sequence of calls one modify_window can make
ModifyTraces == {Calls(o) : o \in Outcomes}

Completed(c, tr) == \E i \in 1..Len(tr) : tr[i].call = c /\ tr[i].out # "raise"

\* modify_window returns True: no exception reached its except clause
ModifyResult(tr) == ~\E i \in 1..Len(tr) : Escapes(tr[i])

\* one call of modify_window on self.hwnd, with the calls it made
modify_window ==
    /\ pc = "modify"
    /\ IF hwnd = 0
       THEN /\ oscalls' = <<>>
            /\ modResult' = "false"
            /\ UNCHANGED <<style, new_style, exstyle>>
       ELSE \E tr \in ModifyTraces :
            LET read == Completed("GetWindowLong", tr)
            IN  /\ oscalls' = tr
                /\ style' = IF read THEN exstyle[hwnd] ELSE 0
                /\ new_style' = IF read THEN NewStyle(exstyle[hwnd]) ELSE 0
                /\ exstyle' = IF Completed("SetWindowLong", tr)
                              THEN [exstyle EXCEPT ![hwnd] = NewStyle(exstyle[hwnd])]
                              ELSE exstyle
                /\ modResult' = IF ModifyResult(tr) THEN "true" ELSE "false"
    /\ pc' = "modified"
    /\ UNCHANGED <<procs, pendingLaunch, wins, gen, restartFault, mpc, selfVars, waitVars,
                   fmwVars, endVars>>

\* what one modify_window leaves behind: its result and whether it wrote
\* the new style
ModifyEffects ==
    {[ok |-> ModifyResult(tr), wrote |-> Completed("SetWindowLong", tr)] :
        tr \in ModifyTraces}

\* time.sleep(1); success = self.modify_window()
fmw_modify ==
    /\ pc = "modify"
    /\ \E eff \in IF hwnd = 0 THEN {[ok |-> FALSE, wrote |-> FALSE]}
                  ELSE ModifyEffects :
        /\ exstyle' = IF eff.wrote
                      THEN [exstyle EXCEPT ![hwnd] = NewStyle(exstyle[hwnd])]
                      ELSE exstyle
        /\ success' = eff.ok
        /\ attempts' = [attempts EXCEPT ![Len(attempts)].calls = @ + 1,
                                        ![Len(attempts)].ok = eff.ok]
        /\ pc' = IF eff.ok THEN "fmw" ELSE "backoff"
    /\ windows' = <<>>               \* the frame of find_window is gone
    /\ UNCHANGED <<procs, pendingLaunch, wins, gen, restartFault, mpc, selfVars, waitVars,
                   retry_count, modVars, endVars>>

\* if not success: retry_count += 1; time.sleep(2)
fmw_retry ==
    /\ pc = "backoff"
    /\ retry_count' = retry_count + 1
    /\ pc' = "fmw"
    /\ windows' = <<>>               \* the frame of find_window is gone
    /\ UNCHANGED <<osVars, gen, restartFault, mpc, selfVars, waitVars, success, attempts,
                   modVars, endVars>>

\* start giving up when the loop failed
fmw_return_Fatal ==
    /\ pc = "fmw"
    /\ ~LoopCondition
    /\ pc' = IF success THEN "monitoring" ELSE "returned"
    /\ UNCHANGED <<osVars, gen, restartFault, mpc, selfVars, waitVars, fmwVars, modVars, endVars>>

\* the loop ends; start logs a warning when it failed and goes on
fmw_return ==
    /\ pc = "fmw"
    /\ ~LoopCondition
    /\ pc' = "monitoring"
    /\ UNCHANGED <<osVars, gen, restartFault, mpc, selfVars, waitVars, fmwVars, modVars, endVars>>

-----------------------------------------------------------------------------
(* start: monitor thread and tray icon *)

\* the controller process is still there
Alive == pc \notin {"returned", "exited", "crashed"}

start_monitoring ==
    /\ pc = "monitoring"
    /\ mpc' = "check"
    /\ pc' = "create_icon"
    /\ retry_count' = 0             \* the frame of find_and_modify_window is gone
    /\ attempts' = <<>>
    /\ UNCHANGED <<osVars, gen, restartFault, selfVars, waitVars, success, windows,
                   modVars, endVars>>

\* create_tray_icon up to self.icon = pystray.Icon(...)
create_tray_icon ==
    /\ pc = "create_icon"
    /\ icon' = TRUE
    /\ pc' = "icon_run"
    /\ UNCHANGED <<osVars, gen, restartFault, mpc, hwnd, is_running, stopSignalled, waitVars,
                   fmwVars, modVars, endVars>>

\* self.icon.run() enters the tray loop
icon_run ==
    /\ pc = "icon_run"
    /\ pc' = "tray"
    /\ success' = FALSE             \* what the retry loop returned is forgotten
    /\ UNCHANGED <<osVars, gen, restartFault, mpc, selfVars, waitVars, retry_count,
                   windows, attempts, modVars, endVars>>

\* the tray loop sees the stop signal: icon.run() returns, start returns True
\* and the script ends
tray_stopped ==
    /\ pc = "tray"
    /\ stopSignalled
    /\ startResult' = "true"
    /\ exitStatus' = 0
    /\ pc' = "returned"
    /\ UNCHANGED <<osVars, gen, restartFault, mpc, selfVars, waitVars, fmwVars, modVars, elog>>

-----------------------------------------------------------------------------
(* monitor_process, on its own thread *)

\* while self.is_running: scan the process table
monitor_scan ==
    /\ Alive
    /\ mpc = "check"
    /\ mpc' = IF ~is_running THEN "ended"
              ELSE CASE Scan(procs) = "match" -> "check"      \* time.sleep(2)
                     [] Scan(procs) = "error" -> "crashed"    \* AttributeError
                     [] OTHER -> "flag"
    /\ UNCHANGED <<osVars, gen, restartFault, pc, selfVars, waitVars, fmwVars, modVars, endVars>>

\* the flag flipped instead of cleared
monitor_flag_Flips ==
    /\ Alive
    /\ mpc = "flag"
    /\ is_running' = ~is_running
    /\ mpc' = "stopicon"
    /\ UNCHANGED <<osVars, gen, restartFault, pc, hwnd, icon, stopSignalled, waitVars, fmwVars,
                   modVars, endVars>>

\* self.is_running = False
monitor_flag ==
    /\ Alive
    /\ mpc = "flag"
    /\ is_running' = FALSE
    /\ mpc' = "stopicon"
    /\ UNCHANGED <<osVars, gen, restartFault, pc, hwnd, icon, stopSignalled, waitVars, fmwVars,
                   modVars, endVars>>

\* if self.icon: self.icon.stop(); break
monitor_stop_icon ==
    /\ Alive
    /\ mpc = "stopicon"
    /\ stopSignalled' = (stopSignalled \/ icon)
    /\ mpc' = "stopped"
    /\ UNCHANGED <<osVars, gen, restartFault, pc, hwnd, is_running, icon, waitVars, fmwVars,
                   modVars, endVars>>

-----------------------------------------------------------------------------
(* exit_application and restart_application, on the tray loop's thread *)

\* elog holds what the handler did, and two observations of the process
\* table during its force-kill loop: the pids that matched when the loop
\* ran ("matching") and those of them the controller may not kill ("denied")
Ev(e) == [ev |-> e, pids |-> {}]
EvPids(e, ps) == [ev |-> e, pids |-> ps]

\* if self.hwnd and win32gui.IsWindow(self.hwnd): PostMessage(WM_CLOSE);
\* the events logged and whether an exception left for the outer except
CloseWindow(isWindow, post) ==
    IF hwnd = 0 THEN [log |-> <<>>, raised |-> FALSE]
    ELSE CASE isWindow = "raise" -> [log |-> <<Ev("error")>>, raised |-> TRUE]
           [] isWindow = "no" -> [log |-> <<Ev("IsWindow:no")>>, raised |-> FALSE]
           [] OTHER -> IF post = "raise"
                       THEN [log |-> <<Ev("IsWindow:yes"), Ev("error")>>,
                             raised |-> TRUE]
                       ELSE [log |-> <<Ev("IsWindow:yes"), Ev("WM_CLOSE")>>,
                             raised |-> FALSE]

\* what a force-kill loop adds to elog
KillLog(before, r, denied) ==
    <<EvPids("matching", Matching(before)), EvPids("kill", r.tried),
      EvPids("denied", Matching(before) \cap denied)>>
    \o (IF r.raised THEN <<Ev("error")>> ELSE <<>>)

\* the menu item 'Exit DesktopMate': self.is_running = False
exit_application ==
    /\ pc = "tray"
    /\ is_running' = FALSE
    /\ elog' = <<Ev("is_running=False")>>
    /\ pc' = "exit_close"
    /\ UNCHANGED <<osVars, gen, restartFault, mpc, hwnd, icon, stopSignalled, waitVars, fmwVars,
                   modVars, startResult, exitStatus>>

\* the handle forgotten once the close was attempted
exit_close_ClearsHandle ==
    /\ pc = "exit_close"
    /\ \E isWindow \in {"yes", "no", "raise"}, post \in {"ok", "raise"} :
        LET r == CloseWindow(isWindow, post)
        IN  /\ elog' = elog \o r.log
            /\ pc' = IF r.raised THEN "exit_stop" ELSE "exit_kill"
    /\ hwnd' = 0
    /\ UNCHANGED <<osVars, gen, restartFault, mpc, is_running, icon, stopSignalled,
                   waitVars, fmwVars, modVars, startResult, exitStatus>>

exit_close ==
    /\ pc = "exit_close"
    /\ \E isWindow \in {"yes", "no", "raise"}, post \in {"ok", "raise"} :
        LET r == CloseWindow(isWindow, post)
        IN  /\ elog' = elog \o r.log
            /\ pc' = IF r.raised THEN "exit_stop" ELSE "exit_kill"
    /\ UNCHANGED <<osVars, gen, restartFault, mpc, selfVars, waitVars, fmwVars, modVars,
                   startResult, exitStatus>>

\* time.sleep(3), then the force-kill loop
exit_kill ==
    /\ pc = "exit_kill"
    /\ \E denied \in SUBSET Pids :
        LET r == ExitKillFrom(procs, 1, denied, {})
        IN  /\ procs' = r.table
            /\ elog' = elog \o <<Ev("sleep")>> \o KillLog(procs, r, denied)
    /\ pc' = "exit_stop"
    /\ UNCHANGED <<pendingLaunch, wins, exstyle, gen, restartFault, mpc, selfVars,
                   waitVars, fmwVars, modVars, startResult, exitStatus>>

\* if self.icon: self.icon.stop()
exit_stop ==
    /\ pc = "exit_stop"
    /\ stopSignalled' = (stopSignalled \/ icon)
    /\ elog' = elog \o (IF icon THEN <<Ev("icon.stop")>> ELSE <<>>)
    /\ pc' = "exit_exit"
    /\ UNCHANGED <<osVars, gen, restartFault, mpc, hwnd, is_running, icon, waitVars, fmwVars,
                   modVars, startResult, exitStatus>>

\* sys.exit(0)
exit_exit ==
    /\ pc = "exit_exit"
    /\ exitStatus' = 0
    /\ elog' = Append(elog, Ev("sys.exit(0)"))
    /\ pc' = "exited"
    /\ UNCHANGED <<osVars, gen, restartFault, mpc, selfVars, waitVars, fmwVars, modVars,
                   startResult>>

\* the menu item 'Restart DesktopMate'
restart_application ==
    /\ pc = "tray"
    /\ gen < MaxRestarts
    /\ elog' = <<Ev("restart")>>
    /\ pc' = "restart_close"
    /\ UNCHANGED <<osVars, gen, restartFault, mpc, selfVars, waitVars, fmwVars, modVars,
                   startResult, exitStatus>>

restart_close ==
    /\ pc = "restart_close"
    /\ \E isWindow \in {"yes", "no", "raise"}, post \in {"ok", "raise"} :
        LET r == CloseWindow(isWindow, post)
        IN  /\ elog' = elog \o r.log
            /\ restartFault' = (restartFault \/ r.raised)
            /\ pc' = IF r.raised THEN "restart_stop" ELSE "restart_kill"
    /\ UNCHANGED <<osVars, gen, mpc, selfVars, waitVars, fmwVars, modVars,
                   startResult, exitStatus>>

\* time.sleep(2), the force-kill loop, time.sleep(1)
restart_kill ==
    /\ pc = "restart_kill"
    /\ \E denied \in SUBSET Pids :
        LET r == RestartKillFrom(procs, 1, denied, {})
        IN  /\ procs' = r.table
            /\ elog' = elog \o <<Ev("sleep")>> \o KillLog(procs, r, denied)
                            \o (IF r.raised THEN <<>> ELSE <<Ev("sleep")>>)
            /\ restartFault' = (\/ restartFault
                                 \/ r.raised
                                 \/ Matching(procs) \cap denied # {})
    /\ pc' = "restart_stop"
    /\ UNCHANGED <<pendingLaunch, wins, exstyle, gen, mpc, selfVars,
                   waitVars, fmwVars, modVars, startResult, exitStatus>>

\* the handler cut short when the icon was already stopped
restart_stop_Returns ==
    /\ pc = "restart_stop"
    /\ stopSignalled' = (stopSignalled \/ icon)
    /\ elog' = elog \o (IF icon THEN <<Ev("icon.stop")>> ELSE <<>>)
    /\ pc' = IF stopSignalled THEN "returned" ELSE "restart_exec"
    /\ UNCHANGED <<osVars, gen, restartFault, mpc, hwnd, is_running, icon, waitVars, fmwVars,
                   modVars, startResult, exitStatus>>

\* if self.icon: self.icon.stop()
restart_stop ==
    /\ pc = "restart_stop"
    /\ stopSignalled' = (stopSignalled \/ icon)
    /\ elog' = elog \o (IF icon THEN <<Ev("icon.stop")>> ELSE <<>>)
    /\ pc' = "restart_exec"
    /\ UNCHANGED <<osVars, gen, restartFault, mpc, hwnd, is_running, icon, waitVars, fmwVars,
                   modVars, startResult, exitStatus>>

\* os.execl(python, python, script): the process image is replaced and the
\* script runs from the top
restart_exec ==
    /\ pc = "restart_exec"
    /\ gen' = gen + 1
    /\ pc' = "start"
    /\ hwnd' = 0
    /\ is_running' = TRUE
    /\ icon' = FALSE
    /\ stopSignalled' = FALSE
    /\ mpc' = "none"
    /\ elapsed' = 0
    /\ waitLog' = NoWait
    /\ retry_count' = 0
    /\ success' = FALSE
    /\ windows' = <<>>
    /\ attempts' = <<>>
    /\ style' = 0
    /\ new_style' = 0
    /\ oscalls' = <<>>
    /\ modResult' = "none"
    /\ startResult' = "none"
    /\ elog' = <<>>
    /\ exitStatus' = -1
    /\ UNCHANGED <<osVars, restartFault>>

-----------------------------------------------------------------------------
(* The whole program *)

MainNext ==
    \/ launch_through_steam
    \/ WaitPoll
    \/ WaitSettle
    \/ WaitTimeout
    \/ StartAfterWait
    \/ find_window
    \/ fmw_modify
    \/ fmw_retry
    \/ fmw_return
    \/ start_monitoring
    \/ create_tray_icon
    \/ icon_run
    \/ tray_stopped
    \/ exit_application
    \/ exit_close
    \/ exit_kill
    \/ exit_stop
    \/ exit_exit
    \/ restart_application
    \/ restart_close
    \/ restart_kill
    \/ restart_stop
    \/ restart_exec

MonitorNext == monitor_scan \/ monitor_flag \/ monitor_stop_icon

Next == MainNext \/ MonitorNext \/ ProcSpawn \/ ProcExit

Spec == Init /\ [][Next]_vars

-----------------------------------------------------------------------------
(* The methods on their own, over all the inputs of the model *)

Waited == [result |-> "true", matchSeen |-> TRUE, settles |-> 1, pollsAfter |-> 0]

\* find_window on every desktop and process table
InitLocate ==
    /\ procs \in AllTables
    /\ pendingLaunch = FALSE
    /\ wins \in AllWorlds
    /\ exstyle = [h \in Hwnds |-> WS_EX_APPWINDOW]
    /\ gen = 0
    /\ restartFault = FALSE
    /\ pc = "fmw"
    /\ SelfInit
    /\ waitLog = Waited
    /\ LocalsInit

SpecLocate == InitLocate /\ [][find_window]_vars

\* modify_window on every handle and every extended style
InitModify ==
    /\ procs = [p \in Pids |-> process_name]
    /\ pendingLaunch = FALSE
    /\ wins \in SysWorlds
    /\ exstyle \in {[h \in Hwnds |-> st] : st \in Styles}
    /\ gen = 0
    /\ restartFault = FALSE
    /\ pc = "modify"
    /\ hwnd \in {0} \cup Hwnds
    /\ is_running = TRUE
    /\ icon = FALSE
    /\ stopSignalled = FALSE
    /\ mpc = "none"
    /\ waitLog = Waited
    /\ LocalsInit

SpecModify == InitModify /\ [][modify_window]_vars

\* the caller comes back for a second modify_window on the same handle, as
\* the loop of find_and_modify_window does on its next attempt
modify_again ==
    /\ pc = "modified"
    /\ hwnd # 0
    /\ retry_count = 0
    /\ retry_count' = 1
    /\ pc' = "modify"
    /\ UNCHANGED <<osVars, gen, restartFault, mpc, selfVars, waitVars, success,
                   windows, attempts, modVars, endVars>>

SpecModifyTwice == InitModify /\ [][modify_window \/ modify_again]_vars

\* the loop of find_and_modify_window while processes come and go; the
\* main thread keeps running
InitRetry ==
    /\ procs \in SysTables
    /\ pendingLaunch \in BOOLEAN
    /\ wins \in SysWorlds
    /\ exstyle = [h \in Hwnds |-> WS_EX_APPWINDOW]
    /\ gen = 0
    /\ restartFault = FALSE
    /\ pc = "fmw"
    /\ SelfInit
    /\ waitLog = Waited
    /\ LocalsInit

RetryNext == find_window \/ fmw_modify \/ fmw_retry \/ fmw_return

FairSpecRetry ==
    InitRetry /\ [][RetryNext \/ ProcSpawn \/ ProcExit]_vars /\ WF_vars(RetryNext)

\* one controller instance, from its start to the os.execl that replaces it
\* or to its end, among processes whose names differ in case and in length
InitInstance ==
    /\ procs \in NamedTables
    /\ pendingLaunch = FALSE
    /\ wins \in SysWorlds
    /\ exstyle = [h \in Hwnds |-> WS_EX_APPWINDOW]
    /\ gen = 0
    /\ restartFault = FALSE
    /\ pc = "start"
    /\ SelfInit
    /\ waitLog = NoWait
    /\ LocalsInit

InstanceMainNext ==
    \/ launch_through_steam
    \/ WaitPoll
    \/ WaitSettle
    \/ WaitTimeout
    \/ StartAfterWait
    \/ find_window
    \/ fmw_modify
    \/ fmw_retry
    \/ fmw_return
    \/ start_monitoring
    \/ create_tray_icon
    \/ icon_run
    \/ tray_stopped
    \/ exit_application
    \/ exit_close
    \/ exit_kill
    \/ exit_stop
    \/ exit_exit
    \/ restart_application
    \/ restart_close
    \/ restart_kill
    \/ restart_stop

InstanceNext == InstanceMainNext \/ MonitorNext \/ ProcSpawn \/ ProcExit

SpecInstance == InitInstance /\ [][InstanceNext]_vars

\* start from the retry loop on, with the monitor thread, when nobody uses
\* the tray menu; both threads keep being scheduled
SuperviseNext ==
    \/ RetryNext
    \/ start_monitoring
    \/ create_tray_icon
    \/ icon_run
    \/ tray_stopped

FairSpecSupervise ==
    /\ InitRetry
    /\ [][SuperviseNext \/ MonitorNext \/ ProcSpawn \/ ProcExit]_vars
    /\ WF_vars(SuperviseNext)
    /\ WF_vars(MonitorNext)

\* the tray loop with the monitor running, the menu item 'Restart
\* DesktopMate' and no pending launch; the handler, once called, and the
\* monitor thread keep being scheduled
InitTray ==
    /\ procs \in SysTables
    /\ pendingLaunch = FALSE
    /\ wins \in SysWorlds
    /\ exstyle = [h \in Hwnds |-> WS_EX_APPWINDOW]
    /\ gen = 0
    /\ restartFault = FALSE
    /\ pc = "tray"
    /\ hwnd \in {0} \cup Hwnds
    /\ is_running = TRUE
    /\ icon = TRUE
    /\ stopSignalled = FALSE
    /\ mpc = "check"
    /\ waitLog = Waited
    /\ LocalsInit

RestartSteps == restart_close \/ restart_kill \/ restart_stop \/ restart_exec

FairSpecRestart ==
    /\ InitTray
    /\ [][restart_application \/ RestartSteps \/ tray_stopped \/ MonitorNext
            \/ ProcExit]_vars
    /\ WF_vars(RestartSteps)
    /\ WF_vars(MonitorNext)

-----------------------------------------------------------------------------
(* Properties *)

Bit(x, b) == (x \div b) % 2

EvNames(log) == [i \in 1..Len(log) |-> log[i].ev]
Logged(e) == \E i \in 1..Len(elog) : elog[i].ev = e

C7_WaitResult ==
    /\ waitLog.pollsAfter = 0
    /\ pc = "wait" => ~waitLog.matchSeen /\ waitLog.result = "none"
    /\ waitLog.matchSeen =>
          \/ pc = "settle" /\ waitLog.result = "none" /\ waitLog.settles = 0
          \/ waitLog.result = "true" /\ waitLog.settles = 1
    /\ waitLog.result = "true" => waitLog.matchSeen
    /\ waitLog.result = "false" =>
          /\ ~waitLog.matchSeen
          /\ waitLog.settles = 0
          /\ (pc = "waited" => elapsed >= 2 * max_wait_time)

C7_Witness ==
    pc = "waited" /\ waitLog.result = "true" /\ elapsed > 0

\* C3 (as claimed): once the monitor has stopped after a scan without a
\* matching process, running is false and the tray icon was told to stop.
C3_MonitorStopSignals ==
    mpc = "stopped" => (~is_running /\ stopSignalled)

\* C2: in find_and_modify_window find_window is called at most 3 times,
\* modify_window at most once per attempt and only after that attempt's
\* find_window returned True, nothing is called after the first
\* modify_window that returned True, the loop returns True exactly when some
\* modify_window returned True, and the loop always ends.
C2_LoopSafe ==
    /\ Len(attempts) <= max_retries
    /\ \A i \in 1..Len(attempts) :
          /\ attempts[i].calls <= 1
          /\ attempts[i].calls > 0 => attempts[i].located
          /\ attempts[i].ok => attempts[i].calls = 1 /\ i = Len(attempts)
    /\ pc = "monitoring" =>
          (success <=> \E i \in 1..Len(attempts) : attempts[i].ok)

C2_RetryLoop == []C2_LoopSafe /\ <>(pc = "monitoring")

C2_Witness ==
    /\ pc = "monitoring"
    /\ success
    /\ Len(attempts) = max_retries
    /\ ~attempts[1].located
    /\ attempts[2].calls = 1
    /\ attempts[max_retries].ok

\* the style modify_window has to write, bit by bit
Expected(st) ==
    st - Bit(st, WS_EX_APPWINDOW) * WS_EX_APPWINDOW
       + (1 - Bit(st, WS_EX_TOOLWINDOW)) * WS_EX_TOOLWINDOW
       + (1 - Bit(st, WS_EX_NOACTIVATE)) * WS_EX_NOACTIVATE

ParentCalls == {"FindWindow:Progman", "FindWindow:WorkerW", "SetParent"}

\* set_parent_to_desktop was entered and did not get to a SetParent that worked
ReparentFailed(tr) ==
    /\ \E i \in 1..Len(tr) : tr[i].call \in ParentCalls
    /\ ~Completed("SetParent", tr)

\* C4: modify_window on a non-null handle, when no OS call of its own
\* raises, writes the style it read with WS_EX_APPWINDOW cleared and
\* WS_EX_TOOLWINDOW and WS_EX_NOACTIVATE set, every other bit kept, whatever
\* set_parent_to_desktop did.
C4_StyleWritten ==
    (pc = "modified" /\ modResult = "true") =>
        /\ hwnd # 0
        /\ style \in Styles
        /\ new_style = Expected(style)
        /\ exstyle[hwnd] = new_style
        /\ Bit(exstyle[hwnd], WS_EX_APPWINDOW) = 0
        /\ Bit(exstyle[hwnd], WS_EX_TOOLWINDOW) = 1
        /\ Bit(exstyle[hwnd], WS_EX_NOACTIVATE) = 1
        /\ \A h \in Hwnds \ {hwnd} : exstyle[h] = style

C4_Witness ==
    /\ pc = "modified"
    /\ modResult = "true"
    /\ Bit(style, WS_EX_APPWINDOW) = 1
    /\ Bit(style, WS_EX_TOOLWINDOW) = 0
    /\ Bit(style, 8) = 1
    /\ ReparentFailed(oscalls)

\* C5: modify_window returns False only without a handle or when one of its
\* own OS calls raises; a failed set_parent_to_desktop (no container found,
\* or a call of it raising) is followed by the final
\* ShowWindow(SW_SHOWNOACTIVATE) and does not make the result False.
C5_FalseOnlyOnOwnFailure ==
    pc = "modified" =>
        /\ modResult = "false" =>
              \/ hwnd = 0
              \/ \E i \in 1..Len(oscalls) :
                    oscalls[i].call \in OwnCalls /\ oscalls[i].out = "raise"
        /\ hwnd = 0 => modResult = "false" /\ oscalls = <<>>
        /\ ReparentFailed(oscalls) =>
              /\ oscalls[Len(oscalls)].call = "ShowWindow:SW_SHOWNOACTIVATE"
              /\ oscalls[Len(oscalls)].out = "ok" => modResult = "true"

C5_Witness ==
    /\ pc = "modified"
    /\ modResult = "true"
    /\ \E i \in 1..Len(oscalls) :
          oscalls[i].call = "SetParent" /\ oscalls[i].out = "raise"
    /\ oscalls[Len(oscalls)] = E("ShowWindow:SW_SHOWNOACTIVATE", "ok")

\* C6: find_window with no candidate returns False and selects nothing;
\* with one candidate it selects that one; with several of which one has
\* "Unity" in its class name it selects such a one, in whatever order the
\* windows were enumerated; with several and none of them it selects the
\* first that was enumerated.
C6_LocateSelection ==
    pc \in {"modify", "backoff"} =>
        LET marked == {i \in 1..Len(windows) : Contains("Unity", windows[i].cls)}
        IN  /\ (pc = "backoff") <=> (windows = <<>>)
            /\ windows = <<>> => hwnd = 0
            /\ Len(windows) = 1 => hwnd = windows[1].hwnd
            /\ (Len(windows) > 1 /\ marked # {}) =>
                  \E i \in marked : hwnd = windows[i].hwnd
            /\ (Len(windows) > 1 /\ marked = {}) => hwnd = windows[1].hwnd

C6_Witness ==
    /\ pc = "modify"
    /\ Len(windows) > 1
    /\ ~Contains("Unity", windows[1].cls)
    /\ hwnd = windows[2].hwnd
    /\ Contains("Unity", windows[2].cls)

\* the shapes elog can have when exit_application has finished
ExitLogs ==
    LET head == <<"is_running=False">>
        tail == <<"icon.stop", "sys.exit(0)">>
        kill == <<"sleep", "matching", "kill", "denied">>
        closed == IF hwnd = 0 THEN {<<>>}
                  ELSE {<<"IsWindow:no">>, <<"IsWindow:yes", "WM_CLOSE">>}
        failed == IF hwnd = 0 THEN {}
                  ELSE {<<"error">>, <<"IsWindow:yes", "error">>}
    IN  {head \o c \o kill \o tail : c \in closed}
        \cup {head \o c \o kill \o <<"error">> \o tail : c \in closed}
        \cup {head \o c \o tail : c \in failed}

C8_ExitDone ==
    pc = "exited" =>
        /\ ~is_running
        /\ stopSignalled
        /\ exitStatus = 0
        /\ EvNames(elog) \in ExitLogs
        /\ ~Logged("error") =>
              \A i \in 1..Len(elog) :
                  elog[i].ev = "kill" => elog[i].pids = elog[i - 1].pids

\* the force-kill loop of exit_application, when nothing raises, leaves no
\* process it found matching alive, but those it may not kill
C8_KillStep ==
    (pc = "exit_kill" /\ pc' = "exit_stop" /\ elog'[Len(elog')].ev = "denied") =>
        \A p \in Matching(procs) :
            p \in elog'[Len(elog')].pids \/ procs'[p] = Absent

\* C8: exit_application sets is_running to False, posts WM_CLOSE exactly when
\* a handle is set and is still a window, sleeps, kills every process that
\* matches the name, stops the tray icon and exits with status 0, in this
\* order; the icon is stopped and status 0 is reached also when closing or
\* killing raised.
C8_ExitOrder == []C8_ExitDone /\ [][C8_KillStep]_vars

C8_Witness ==
    /\ pc = "exited"
    /\ Logged("WM_CLOSE")
    /\ ~Logged("error")
    /\ \E i \in 1..Len(elog) :
          /\ elog[i].ev = "kill"
          /\ Cardinality(elog[i].pids) > 1
          /\ elog[i + 1].pids = {}
    /\ Matching(procs) = {}

\* C9 (as claimed): when restart_application gets to stopping the icon and
\* re-executing, its force-kill loop has killed every process that matched
\* the name and that the controller may kill.
C9_RestartKillsAll ==
    (pc \in {"restart_stop", "restart_exec"} /\ ~Logged("error")) =>
        \A i \in 1..Len(elog) :
            elog[i].ev = "kill" =>
                (elog[i - 1].pids \ elog[i + 1].pids) \subseteq elog[i].pids

\* C10 (as claimed): after two restarts in a row that met no error and no
\* process they may not kill, at most one process matching the name is alive
\* when the instance the second restart executed starts.
C10_AtMostOneAfterTwoRestarts ==
    (gen = 2 /\ pc = "start" /\ ~restartFault) =>
        Cardinality(Matching(procs)) <= 1

\* the names of the model that equal the target name after case folding
FoldEqual == {"DesktopMate.exe", "desktopmate.exe"}

FoldPids(t) == {p \in Pids : t[p] \in FoldEqual}

\* the pids a force-kill loop called proc.kill() on
Tried(log) == log[CHOOSE i \in 1..Len(log) : log[i].ev = "kill"].pids

C11_Step ==
    \* wait_for_application
    /\ (pc = "wait" /\ pc' = "settle") => FoldPids(procs) # {}
    /\ (pc = "wait" /\ pc' = "wait" /\ elapsed' # elapsed) => FoldPids(procs) = {}
    \* monitor_process
    /\ (mpc = "check" /\ mpc' = "flag") => FoldPids(procs) = {}
    \* the callback of find_window
    /\ (pc = "fmw" /\ pc' \in {"modify", "backoff"}) =>
          {windows'[i].hwnd : i \in 1..Len(windows')} =
          {h \in Hwnds : wins[h] # NoWin /\ wins[h].visible
                                          /\ procs[wins[h].pid] \in FoldEqual}
    \* exit_application
    /\ (pc = "exit_kill" /\ pc' = "exit_stop") =>
          /\ Tried(elog') \subseteq FoldPids(procs)
          /\ elog'[Len(elog')].ev # "error" => Tried(elog') = FoldPids(procs)
          /\ \A p \in Pids : procs'[p] # procs[p] => p \in FoldPids(procs)
    \* restart_application
    /\ (pc = "restart_kill" /\ pc' = "restart_stop") =>
          /\ Tried(elog') \subseteq FoldPids(procs)
          /\ (~(\E i \in 1..Len(elog') : elog'[i].ev = "error")) =>
                (Tried(elog') = {} <=> FoldPids(procs) = {})
          /\ \A p \in Pids : procs'[p] # procs[p] => p \in FoldPids(procs)

\* C11: every comparison of a process name with the target (wait, window
\* owner, monitor, exit kill loop, restart kill loop) holds exactly for the
\* names equal to the target after case folding: "desktopmate.exe" matches,
\* "DesktopMateUpdater.exe" does not.
C11_NameComparison == [][C11_Step]_vars

C11_Witness ==
    /\ pc = "exit_stop"
    /\ Logged("kill")
    /\ Tried(elog) = {2}
    /\ procs[1] = "DesktopMateUpdater.exe"
    /\ procs[2] = Absent
    /\ waitLog.matchSeen
    /\ hwnd = 2

BeforeMonitor ==
    {"start", "wait", "settle", "waited", "fmw", "modify", "backoff", "monitoring"}

C12_Order ==
    /\ mpc # "none" => pc \notin BeforeMonitor
    /\ pc \in {"icon_run", "tray"} => mpc # "none"

C12_Step ==
    (pc = "monitoring" /\ pc' # pc) =>
        (mpc = "none" /\ mpc' = "check" /\ pc' = "create_icon")

\* C12: after a successful wait, start gets to start_monitoring and then into
\* the tray loop whether find_and_modify_window returned True or False; the
\* monitor thread is started only when the retry loop has returned and
\* before icon.run() is entered.
C12_StartOrder == []C12_Order /\ [][C12_Step]_vars /\ <>(pc = "tray")

C12_Witness ==
    /\ pc = "icon_run"
    /\ ~success
    /\ mpc # "none"
    /\ waitLog.result = "true"

\* no process at all is left in the process table
Gone == \A p \in Pids : procs[p] = Absent

\* C13 (as claimed): when the target process is gone for good while start is
\* between start_monitoring and the tray loop, or in it, and nobody uses the
\* menu, the tray loop ends and start returns.
C13_TrayEnds ==
    [](((pc \in {"create_icon", "icon_run", "tray"}) /\ []Gone) => <>(pc = "returned"))

ExitPhase == {"exit_close", "exit_kill", "exit_stop", "exit_exit", "exited"}
RestartPhase == {"restart_close", "restart_kill", "restart_stop", "restart_exec"}

C14_Flag ==
    /\ pc = "start" => is_running
    /\ mpc \in {"stopicon", "stopped"} => ~is_running
    /\ pc \in ExitPhase => ~is_running

C14_Step == (gen' = gen /\ ~is_running) => ~is_running'

\* C14: within one controller instance is_running starts True and, once
\* False, stays False in every interleaving of the monitor thread and
\* exit_application; when both write it, it is False.
C14_RunningMonotonic == []C14_Flag /\ [][C14_Step]_vars

C14_Witness ==
    /\ pc = "exit_close"
    /\ mpc = "stopicon"
    /\ ~is_running

\* the windows find_window has to list: visible, owned by a process whose
\* name is the target's in some case
Admissible ==
    {h \in Hwnds : /\ wins[h] # NoWin
                   /\ wins[h].visible
                   /\ procs[wins[h].pid] \in FoldEqual}

\* C15: find_window lists a window only if it is visible and its owner is a
\* process with the target's name (case-insensitive); a window whose owner
\* is gone or cannot be inspected is skipped, the windows enumerated after it
\* are still listed, and find_window fails only when no window qualifies.
C15_Admission ==
    pc \in {"modify", "backoff"} =>
        /\ {windows[i].hwnd : i \in 1..Len(windows)} = Admissible
        /\ \A i, j \in 1..Len(windows) : windows[i].hwnd = windows[j].hwnd => i = j
        /\ \A i \in 1..Len(windows) : windows[i].cls = wins[windows[i].hwnd].cls
        /\ (pc = "backoff") <=> (Admissible = {})

C15_Witness ==
    /\ pc = "modify"
    /\ wins[1] # NoWin /\ wins[1].visible
    /\ procs[wins[1].pid] = Absent
    /\ wins[2] # NoWin /\ wins[2].visible
    /\ procs[wins[2].pid] = "desktopmate.exe"
    /\ Len(windows) = 1
    /\ hwnd = 2

\* C16 (as claimed): no error escapes the process scans of
\* wait_for_application and monitor_process, whatever the process table
\* holds: neither the polling loop nor the monitor thread dies.
C16_ScansTolerate == pc # "crashed" /\ mpc # "crashed"

Located == {i \in 1..Len(attempts) : attempts[i].located}

C17_Step ==
    /\ (hwnd' # hwnd /\ gen' = gen) =>
          (pc = "fmw" /\ pc' = "modify" /\ mpc = "none")
    /\ Len(attempts') > Len(attempts) => (pc = "fmw" /\ mpc = "none")

\* C17 (as amended): self.hwnd is assigned only by find_window, once for
\* each attempt of the retry loop that found a window (up to 3 times), always
\* on the main thread before the monitor thread is started; nothing that
\* runs after start_monitoring (monitor, exit, restart) assigns it.
C17_HandleWrites ==
    [](Cardinality(Located) <= max_retries) /\ [][C17_Step]_vars

C17_Witness ==
    /\ pc = "modify"
    /\ Len(attempts) = max_retries
    /\ Cardinality(Located) = max_retries
    /\ mpc = "none"

\* C17 (as claimed): self.hwnd is assigned at most once in an instance.
C17_WrittenOnce == Cardinality(Located) <= 1

CallNames(tr) == [i \in 1..Len(tr) |-> tr[i].call]

\* the orders of OS calls with the given show after the minimized query
Orders(show) ==
    {pre \o <<show, "GetWindowLong", "SetWindowLong">> \o par
         \o <<"ShowWindow:SW_SHOWNOACTIVATE">> :
        pre \in {<<"IsIconic">>, <<"IsIconic", "ShowWindow:SW_RESTORE">>},
        par \in {<<"FindWindow:Progman">>,
                 <<"FindWindow:Progman", "SetParent">>,
                 <<"FindWindow:Progman", "FindWindow:WorkerW">>,
                 <<"FindWindow:Progman", "FindWindow:WorkerW", "SetParent">>}}

\* restore only when minimized, WorkerW only when Progman is not found,
\* SetParent only when a container was found
Conditions(tr) ==
    /\ (tr[1].out = "yes") <=> (tr[2].call = "ShowWindow:SW_RESTORE")
    /\ \A i \in 1..Len(tr) :
          /\ tr[i].call = "FindWindow:WorkerW" => tr[i - 1].out = "null"
          /\ tr[i].call = "SetParent" => tr[i - 1].out = "ok"

\* C18 (as claimed): a modify_window in which nothing raises makes its OS
\* calls in this order: restore only if minimized, a show that does not
\* activate, read the style, write the style, the reparent attempt, a show
\* that does not activate.
C18_CallOrder ==
    (pc = "modified" /\ modResult = "true"
        /\ \A i \in 1..Len(oscalls) : oscalls[i].out # "raise") =>
        /\ CallNames(oscalls) \in Orders("ShowWindow:SW_SHOWNOACTIVATE")
        /\ Conditions(oscalls)

\* the second modify_window, after a first one that wrote the style
C19_Step ==
    (/\ pc = "modify" /\ pc' = "modified"
     /\ retry_count = 1
     /\ Completed("SetWindowLong", oscalls)
     /\ Completed("GetWindowLong", oscalls')) =>
        /\ style' = new_style
        /\ new_style' = new_style
        /\ exstyle' = exstyle

\* C19: a second modify_window on a handle whose style a first modify_window
\* has written reads that style, computes the same style again and leaves
\* the window's extended style as it was, for every initial style.
C19_Idempotent == [][C19_Step]_vars

C19_Witness ==
    /\ pc = "modified"
    /\ retry_count = 1
    /\ modResult = "true"
    /\ hwnd = 1
    /\ style = new_style
    /\ exstyle[1] = new_style
    /\ exstyle[2] # exstyle[1]
    /\ Bit(exstyle[2], WS_EX_TOOLWINDOW) = 1
    /\ Bit(exstyle[2], WS_EX_APPWINDOW) = 1

C20_Step ==
    /\ pc \in RestartPhase => pc' \in RestartPhase \cup {"start"}
    /\ (pc' # pc /\ pc' \in RestartPhase) => is_running' = is_running
    /\ (pc = "restart_exec" /\ pc' # pc) => (pc' = "start" /\ gen' = gen + 1)

\* C20: restart_application never writes is_running, so the monitor goes on
\* scanning while it runs; whatever the monitor does meanwhile, also when it
\* sees the killed process gone and stops the icon, the handler goes on to
\* os.execl: once called it never leaves but into the re-executed script.
C20_RestartCompletes ==
    [][C20_Step]_vars /\ ((pc \in RestartPhase) ~> (pc = "start" /\ gen = 1))

C20_Witness ==
    /\ pc = "restart_exec"
    /\ Logged("kill") /\ Tried(elog) # {}
    /\ ~Logged("error")
    /\ Matching(procs) = {}
    /\ mpc = "stopped"
    /\ ~is_running
    /\ stopSignalled

====
